---- MODULE Spec2Model ----
(***************************************************************************)
(* Order workflow of the e-commerce API (internal/service/interfaces.go,   *)
(* orderService) over the product and order repositories and the payment   *)
(* gateway.  Every repository or gateway call is one atomic step of the    *)
(* request that makes it; the local computation between two calls belongs  *)
(* to the step of the call that follows it.  Money is counted in whole     *)
(* currency units.  The sellers' catalog edits (productService), the       *)
(* analytics endpoint, the rate limit middleware of the auth routes, the   *)
(* password reset (authService) and the cart (cartService) follow, each    *)
(* with the specification that exercises it.                               *)
(***************************************************************************)
EXTENDS Integers, Sequences, FiniteSets, TLC

\* ---------------------------------------------------------------- bounds
MaxOrders == 1
MaxQty == 2
MaxLines == 2
MaxStock == 2
MaxIntents == 1
MaxFaults == 1
MaxClock == 2
MaxTokens == 2
MaxCartItems == 3

\* ------------------------------------------------------------- constants
Procs == {1, 2}
\* product ids a request may name; 3 never exists in the catalog
ProductIDs == {1, 2, 3}
CatalogIDs == {1, 2}
\* users by id: 1, 2 customers; 3, 4 sellers; 5 admin
UserIDs == {1, 2, 3, 4, 5}
OrderingUsers == {1}
\* order ids a request may name; ids above Len(orders) do not exist yet
OrderIDs == 1..MaxOrders

RoleCustomer == "customer"
RoleSeller == "seller"
RoleAdmin == "admin"

UserRole == [u \in UserIDs |->
              IF u = 5 THEN RoleAdmin ELSE IF u \in {3, 4} THEN RoleSeller ELSE RoleCustomer]

OrderStatusPending == "pending"
OrderStatusConfirmed == "confirmed"
OrderStatusProcessing == "processing"
OrderStatusShipped == "shipped"
OrderStatusDelivered == "delivered"
OrderStatusCancelled == "cancelled"
OrderStatusRefunded == "refunded"

OrderStatus == {OrderStatusPending, OrderStatusConfirmed, OrderStatusProcessing,
                OrderStatusShipped, OrderStatusDelivered, OrderStatusCancelled,
                OrderStatusRefunded}

\* catalog price and owner of the two products
ProductPrice == [id \in CatalogIDs |-> IF id = 1 THEN 10 ELSE 3]
ProductSeller == [id \in CatalogIDs |-> IF id = 1 THEN 3 ELSE 4]

\* AuthRateLimit: 30 requests per minute, bursts of 5; the security guide's
\* test sends 35 login requests from one address
RequestsPerMinute == 30
BurstSize == 5
BurstRequests == 35
ClientIPs == {1, 2}

\* ----------------------------------------------------------------- state
VARIABLES
  catalog,      \* products table: id -> [IsActive, Stock, Price, SellerID]
  orders,       \* orders table: sequence indexed by order id
  intents,      \* payment intents held by the gateway
  req,          \* the requests in flight, one per slot
  audit,        \* per order: the stock before its creation, whether any other
                \* request has written the stock of one of its products, the
                \* order as it was written at creation, and per product what
                \* the cancellations of the order have added to the stock
  maxInFlight,  \* how many requests the environment runs at once
  faultsLeft,   \* how many store or gateway calls the environment may still fail
  limiters,     \* the rate limiter's map: client address -> tokens left
  clock,        \* time since start, in token periods (60 / 30 = 2 seconds)
  answered,     \* per client address: login requests handled, and answered 429
  caps,         \* how many rows the environment lets the orders table and the
                \* gateway's list of intents take
  resetTokens,  \* password_reset_tokens: sequence indexed by the token issued
  passwords,    \* users.password: user id -> password hash
  reset,        \* the forgot-password and reset-password requests in flight
  carts,        \* carts table: sequence indexed by cart id
  cartItems,    \* cart_items table: sequence indexed by item id; a deleted
                \* row keeps its id
  cartLast      \* the cart request answered last, with the tables before it

vars == <<catalog, orders, intents, req, audit, maxInFlight, faultsLeft,
          limiters, clock, answered, caps,
          resetTokens, passwords, reset, carts, cartItems, cartLast>>

\* the variables of each subsystem
orderVars == <<catalog, orders, intents, req, audit, maxInFlight, faultsLeft, caps>>
rateVars == <<limiters, clock, answered>>
authVars == <<resetTokens, passwords, reset>>
cartVars == <<carts, cartItems, cartLast>>

\* ------------------------------------------------------------- utilities
OrderItemRequest == [ProductID : ProductIDs, Quantity : 1..MaxQty]

RECURSIVE SeqsUpTo(_, _)
SeqsUpTo(S, n) ==
  IF n = 0 THEN {<<>>}
  ELSE LET shorter == SeqsUpTo(S, n - 1)
       IN  shorter \cup {Append(s, x) : s \in {t \in shorter : Len(t) = n - 1}, x \in S}

\* the item lists of the requests the environment sends
CreateOrderRequest == SeqsUpTo(OrderItemRequest, MaxLines)

Serial == maxInFlight = 1

\* what the environment sends: everything when requests run one at a time,
\* the requests a race needs when two run at once
CreateInputs ==
  IF Serial THEN CreateOrderRequest ELSE {<<[ProductID |-> 1, Quantity |-> 1]>>}
StatusInputs ==
  IF Serial THEN OrderStatus
  ELSE {OrderStatusConfirmed, OrderStatusProcessing, OrderStatusShipped,
        OrderStatusDelivered, OrderStatusCancelled}
StatusActors == IF Serial THEN {1, 3, 4, 5} ELSE {5}
CancelActors == IF Serial THEN {1, 2, 3, 5} ELSE {1}
PayCallers == IF Serial THEN {1, 2} ELSE {1}
PayAmounts == IF Serial THEN {10, 20} ELSE {10}

\* outcomes of a store or gateway call that the environment may choose
Fails == IF faultsLeft > 0 THEN BOOLEAN ELSE {FALSE}

\* the environment after a step in which a call failed or not
Env(fail) ==
  /\ maxInFlight' = maxInFlight
  /\ faultsLeft' = IF fail THEN faultsLeft - 1 ELSE faultsLeft
  /\ UNCHANGED <<caps, rateVars, authVars, cartVars>>

NoOrder == [CustomerID |-> 0, Status |-> "none", OrderItems |-> <<>>,
            TotalAmount |-> 0, SubtotalAmount |-> 0]
NoSnap == [catalog |-> <<>>, orders |-> <<>>, intents |-> <<>>]
NoProduct == [IsActive |-> FALSE, Stock |-> 0, Price |-> 0, SellerID |-> 0]

Idle == [op |-> "none", pc |-> "idle", userID |-> 0, id |-> 0, items |-> <<>>,
         status |-> "none", payAmount |-> 0, payOrder |-> 0,
         i |-> 0, orderItems |-> <<>>, totalAmount |-> 0, newStock |-> 0,
         order |-> NoOrder, product |-> NoProduct,
         intent |-> 0, gwCalls |-> 0, gwFailed |-> FALSE,
         result |-> "none", ret |-> 0, pre |-> NoSnap, fault |-> FALSE]

InFlight == {q \in Procs : req[q].pc # "idle"}

\* requests that will still add a row to a bounded table
Creating == {q \in Procs : req[q].op = "CreateOrder" /\ req[q].pc \in {"validate", "persist"}}
Paying == {q \in Procs : req[q].op = "ProcessPayment" /\ req[q].pc = "create_intent"}

\* a request enters at the lowest free slot while the environment allows it
CanBegin(p) ==
  /\ req[p].pc = "idle"
  /\ Cardinality(InFlight) < maxInFlight
  /\ \A q \in Procs : q < p => req[q].pc # "idle"

Snap == [catalog |-> catalog, orders |-> orders, intents |-> intents]

\* the request ends with the given result; loop locals are dropped
Finish(r, res, ret) ==
  [r EXCEPT !.pc = "done", !.result = res, !.ret = ret,
            !.i = 0, !.orderItems = <<>>, !.totalAmount = 0, !.newStock = 0,
            !.order = NoOrder, !.product = NoProduct, !.intent = 0]

StockOf(cat) == [id \in DOMAIN cat |-> cat[id].Stock]

HasProduct(order, productID) ==
  \E k \in DOMAIN order.OrderItems : order.OrderItems[k].ProductID = productID

\* a request working for order `own` writes the stock of productID: every
\* other order that holds the product is no longer clean
Touched(own, productID) ==
  [j \in DOMAIN audit |->
     IF j # own /\ HasProduct(orders[j], productID)
     THEN [audit[j] EXCEPT !.clean = FALSE] ELSE audit[j]]

\* what a write of `stock` adds to the stock of the product
Added(id, stock, fail) ==
  IF ~fail /\ id \in DOMAIN catalog THEN stock - catalog[id].Stock ELSE 0

\* a cancellation of order `own` writes `stock` to productID
Restored(own, productID, stock, fail) ==
  [Touched(own, productID) EXCEPT
     ![own].restored[productID] = @ + Added(productID, stock, fail)]

\* --------------------------------------------------- product repository
\* productRepository.GetByID: the row, or an error when it is missing
ProductGetByIDOk(id, fail) == ~fail /\ id \in DOMAIN catalog

\* productRepository.UpdateStock: UPDATE ... WHERE id = ?
ProductUpdateStock(id, stock, fail) ==
  IF ~fail /\ id \in DOMAIN catalog
  THEN [catalog EXCEPT ![id].Stock = stock]
  ELSE catalog

\* ----------------------------------------------------- order repository
\* orderRepository.Create: the order and its items in one INSERT
OrderCreate(order) == Append(orders, order)

OrderGetByIDOk(id, fail) == ~fail /\ id \in DOMAIN orders

\* a status write that also clears the row's items
OrderUpdateStatus_ClearsItems(id, status) ==
  IF id \in DOMAIN orders
  THEN [orders EXCEPT ![id].Status = status, ![id].OrderItems = <<>>]
  ELSE orders

\* orderRepository.UpdateStatus: UPDATE orders SET status WHERE id = ?
OrderUpdateStatus(id, status) ==
  IF id \in DOMAIN orders
  THEN [orders EXCEPT ![id].Status = status]
  ELSE orders

\* ----------------------------------------------------------- CreateOrder
CreateOrderBegin(p, items, userID) ==
  /\ CanBegin(p)
  /\ Len(orders) + Cardinality(Creating) < caps.orders
  /\ req' = [req EXCEPT ![p] =
       IF Len(items) = 0
       THEN Finish([Idle EXCEPT !.op = "CreateOrder", !.userID = userID,
                                !.items = items, !.pre = Snap],
                   "empty", 0)
       ELSE [Idle EXCEPT !.op = "CreateOrder", !.pc = "validate", !.userID = userID,
                         !.items = items, !.i = 1, !.pre = Snap]]
  /\ UNCHANGED <<catalog, orders, intents, audit>>
  /\ Env(FALSE)

\* one iteration of the validation loop
InsufficientStock_OffByOne(product, item) == product.Stock + 1 < item.Quantity

\* a stock check that lets every line through
InsufficientStock_Never(product, item) == FALSE

InsufficientStock(product, item) == product.Stock < item.Quantity

ItemTotal_NoQuantity(product, item) == product.Price

\* a unit price that is not the catalog's
CatalogPrice_Marked(product) == product.Price + 1

\* the unit price of a line: the price of the product row just read
CatalogPrice(product) == product.Price

ItemTotal(product, item) == product.Price * item.Quantity

CreateOrderValidate(p, fail) ==
  LET r == req[p]
      item == r.items[r.i]
  IN
  /\ r.op = "CreateOrder" /\ r.pc = "validate"
  /\ req' = [req EXCEPT ![p] =
       IF ~ProductGetByIDOk(item.ProductID, fail)
       THEN Finish([r EXCEPT !.fault = fail], "product_get_failed", 0)
       ELSE LET product == catalog[item.ProductID] IN
            IF ~product.IsActive THEN Finish(r, "not_available", 0)
            ELSE IF InsufficientStock(product, item) THEN Finish(r, "insufficient_stock", 0)
            ELSE LET itemTotal == ItemTotal(product, item)
                     oi == [ProductID |-> item.ProductID, Quantity |-> item.Quantity,
                            UnitPrice |-> CatalogPrice(product), TotalPrice |-> itemTotal]
                 IN [r EXCEPT !.totalAmount = @ + itemTotal,
                              !.orderItems = Append(@, oi),
                              !.i = @ + 1,
                              !.pc = IF r.i = Len(r.items) THEN "persist" ELSE "validate"]]
  /\ UNCHANGED <<catalog, orders, intents, audit>>
  /\ Env(fail)

NewOrder(r) ==
  [CustomerID |-> r.userID, Status |-> OrderStatusPending,
   TotalAmount |-> r.totalAmount, SubtotalAmount |-> r.totalAmount,
   OrderItems |-> r.orderItems]

CreateOrderPersist(p, fail) ==
  LET r == req[p] IN
  /\ r.op = "CreateOrder" /\ r.pc = "persist"
  /\ IF fail
     THEN /\ req' = [req EXCEPT ![p] = Finish([r EXCEPT !.fault = TRUE], "create_failed", 0)]
          /\ UNCHANGED <<orders, audit>>
     ELSE /\ orders' = OrderCreate(NewOrder(r))
          /\ audit' = Append(audit, [preStock |-> StockOf(r.pre.catalog), clean |-> TRUE,
                                     created |-> NewOrder(r),
                                     restored |-> [id \in CatalogIDs |-> 0]])
          /\ req' = [req EXCEPT ![p] = [r EXCEPT !.id = Len(orders) + 1, !.i = 1,
                                                 !.pc = "stock_read"]]
  /\ UNCHANGED <<catalog, intents>>
  /\ Env(fail)

DecrementedStock_One(product, item) == product.Stock - 1

DecrementedStock(product, item) == product.Stock - item.Quantity

\* the stock loop reads the product again and ignores the read's error:
\* a failed read leaves a nil product, and the subtraction panics
CreateOrderStockRead(p, fail) ==
  LET r == req[p]
      item == r.items[r.i]
  IN
  /\ r.op = "CreateOrder" /\ r.pc = "stock_read"
  /\ req' = [req EXCEPT ![p] =
       IF ~ProductGetByIDOk(item.ProductID, fail)
       THEN Finish([r EXCEPT !.fault = fail], "panic", 0)
       ELSE [r EXCEPT !.newStock = DecrementedStock(catalog[item.ProductID], item),
                      !.pc = "stock_write"]]
  /\ UNCHANGED <<catalog, orders, intents, audit>>
  /\ Env(fail)

CreateOrderStockWrite(p, fail) ==
  LET r == req[p]
      item == r.items[r.i]
      last == r.i = Len(r.items)
      r2 == [r EXCEPT !.fault = @ \/ fail, !.i = @ + 1, !.newStock = 0,
                      !.pc = "stock_read"]
  IN
  /\ r.op = "CreateOrder" /\ r.pc = "stock_write"
  /\ catalog' = ProductUpdateStock(item.ProductID, r.newStock, fail)
  /\ audit' = Touched(r.id, item.ProductID)
  /\ req' = [req EXCEPT ![p] = IF last THEN Finish(r2, "ok", r.id) ELSE r2]
  /\ UNCHANGED <<orders, intents>>
  /\ Env(fail)

\* ----------------------------------------------------- UpdateOrderStatus
ValidTransitions_ShippedCancellable(from) ==
  CASE from = OrderStatusPending -> {OrderStatusConfirmed, OrderStatusCancelled}
    [] from = OrderStatusConfirmed -> {OrderStatusProcessing, OrderStatusCancelled}
    [] from = OrderStatusProcessing -> {OrderStatusShipped, OrderStatusCancelled}
    [] from = OrderStatusShipped -> {OrderStatusDelivered, OrderStatusCancelled}
    [] OTHER -> {}

\* a table in which a confirmed order can no longer be cancelled
ValidTransitions_ConfirmedFinal(from) ==
  CASE from = OrderStatusPending -> {OrderStatusConfirmed, OrderStatusCancelled}
    [] from = OrderStatusConfirmed -> {OrderStatusProcessing}
    [] from = OrderStatusProcessing -> {OrderStatusShipped, OrderStatusCancelled}
    [] from = OrderStatusShipped -> {OrderStatusDelivered}
    [] OTHER -> {}

ValidTransitions(from) ==
  CASE from = OrderStatusPending -> {OrderStatusConfirmed, OrderStatusCancelled}
    [] from = OrderStatusConfirmed -> {OrderStatusProcessing, OrderStatusCancelled}
    [] from = OrderStatusProcessing -> {OrderStatusShipped, OrderStatusCancelled}
    [] from = OrderStatusShipped -> {OrderStatusDelivered}
    [] from = OrderStatusDelivered -> {}
    [] from = OrderStatusCancelled -> {}
    [] OTHER -> {}

isValidStatusTransition(from, to) == to \in ValidTransitions(from)

\* a seller check that lets every seller through
HasSellerItem_AnySeller(order, userID, fail) == TRUE

\* the seller loop: some item's product can be read and belongs to the seller
HasSellerItem(order, userID, fail) ==
  \E k \in DOMAIN order.OrderItems :
    /\ ProductGetByIDOk(order.OrderItems[k].ProductID, fail)
    /\ catalog[order.OrderItems[k].ProductID].SellerID = userID

UpdateOrderStatusBegin(p, id, status, userID, fail) ==
  /\ CanBegin(p)
  /\ LET r == [Idle EXCEPT !.op = "UpdateOrderStatus", !.id = id, !.status = status,
                           !.userID = userID, !.pre = Snap, !.fault = fail]
     IN req' = [req EXCEPT ![p] =
          IF ~OrderGetByIDOk(id, fail) THEN Finish(r, "order_get_failed", 0)
          ELSE [r EXCEPT !.order = orders[id], !.pc = "authorize"]]
  /\ UNCHANGED <<catalog, orders, intents, audit>>
  /\ Env(fail)

UpdateOrderStatusAuthorize(p, fail) ==
  LET r == req[p]
      userRole == UserRole[r.userID]
  IN
  /\ r.op = "UpdateOrderStatus" /\ r.pc = "authorize"
  /\ req' = [req EXCEPT ![p] =
       IF userRole # RoleAdmin /\ userRole # RoleSeller
       THEN Finish(r, "unauthorized", 0)
       ELSE IF userRole = RoleSeller /\ ~HasSellerItem(r.order, r.userID, fail)
       THEN Finish([r EXCEPT !.fault = @ \/ fail], "unauthorized", 0)
       ELSE IF ~isValidStatusTransition(r.order.Status, r.status)
       THEN Finish(r, "invalid_transition", 0)
       ELSE [r EXCEPT !.pc = "write"]]
  /\ UNCHANGED <<catalog, orders, intents, audit>>
  /\ Env(fail)

UpdateOrderStatusWrite(p, fail) ==
  LET r == req[p] IN
  /\ r.op = "UpdateOrderStatus" /\ r.pc = "write"
  /\ orders' = IF fail THEN orders ELSE OrderUpdateStatus(r.id, r.status)
  /\ req' = [req EXCEPT ![p] =
       IF fail THEN Finish([r EXCEPT !.fault = TRUE], "update_failed", 0)
       ELSE Finish(r, "ok", 0)]
  /\ UNCHANGED <<catalog, intents, audit>>
  /\ Env(fail)

\* ----------------------------------------------------------- CancelOrder
CanCancel_Processing(order) ==
  order.Status \in {OrderStatusPending, OrderStatusConfirmed, OrderStatusProcessing}

CanCancel(order) ==
  order.Status = OrderStatusPending \/ order.Status = OrderStatusConfirmed

\* a check that also lets every seller cancel
CancelForbidden_SellersAllowed(order, userID, userRole) ==
  userRole # RoleAdmin /\ userRole # RoleSeller /\ order.CustomerID # userID

\* neither an admin nor the order's customer
CancelForbidden(order, userID, userRole) ==
  userRole # RoleAdmin /\ order.CustomerID # userID

CancelOrderBegin(p, id, userID, fail) ==
  /\ CanBegin(p)
  /\ LET r == [Idle EXCEPT !.op = "CancelOrder", !.id = id, !.userID = userID,
                           !.pre = Snap, !.fault = fail]
         userRole == UserRole[userID]
     IN req' = [req EXCEPT ![p] =
          IF ~OrderGetByIDOk(id, fail) THEN Finish(r, "order_get_failed", 0)
          ELSE IF CancelForbidden(orders[id], userID, userRole)
          THEN Finish(r, "unauthorized", 0)
          ELSE IF ~CanCancel(orders[id]) THEN Finish(r, "not_cancellable", 0)
          ELSE [r EXCEPT !.order = orders[id], !.i = 1,
                         !.pc = IF Len(orders[id].OrderItems) = 0
                                THEN "cancel_write" ELSE "restore_read"]]
  /\ UNCHANGED <<catalog, orders, intents, audit>>
  /\ Env(fail)

RestoredStock_One(product, item) == product.Stock + 1

RestoredStock(product, item) == product.Stock + item.Quantity

\* after the item at r.i: the next item, or the status write
AfterItem(r) ==
  [r EXCEPT !.i = @ + 1, !.newStock = 0,
            !.pc = IF r.i = Len(r.order.OrderItems) THEN "cancel_write" ELSE "restore_read"]

\* a loop that gives up at the first item it cannot restore
ItemSkipped_Fatal(r, fail) == Finish([r EXCEPT !.fault = @ \/ fail], "restore_failed", 0)

\* the item's product could not be read, or its stock not written: the loop
\* goes on with the next item
ItemSkipped(r, fail) == AfterItem([r EXCEPT !.fault = @ \/ fail])

CancelOrderRestoreRead(p, fail) ==
  LET r == req[p]
      item == r.order.OrderItems[r.i]
  IN
  /\ r.op = "CancelOrder" /\ r.pc = "restore_read"
  /\ req' = [req EXCEPT ![p] =
       IF ~ProductGetByIDOk(item.ProductID, fail)
       THEN ItemSkipped(r, fail)
       ELSE [r EXCEPT !.newStock = RestoredStock(catalog[item.ProductID], item),
                      !.pc = "restore_write"]]
  /\ UNCHANGED <<catalog, orders, intents, audit>>
  /\ Env(fail)

CancelOrderRestoreWrite(p, fail) ==
  LET r == req[p]
      item == r.order.OrderItems[r.i]
  IN
  /\ r.op = "CancelOrder" /\ r.pc = "restore_write"
  /\ catalog' = ProductUpdateStock(item.ProductID, r.newStock, fail)
  /\ audit' = Restored(r.id, item.ProductID, r.newStock, fail)
  /\ req' = [req EXCEPT ![p] = IF fail THEN ItemSkipped(r, fail) ELSE AfterItem(r)]
  /\ UNCHANGED <<orders, intents>>
  /\ Env(fail)

CancelOrderWrite(p, fail) ==
  LET r == req[p] IN
  /\ r.op = "CancelOrder" /\ r.pc = "cancel_write"
  /\ orders' = IF fail THEN orders ELSE OrderUpdateStatus(r.id, OrderStatusCancelled)
  /\ req' = [req EXCEPT ![p] =
       IF fail THEN Finish([r EXCEPT !.fault = TRUE], "cancel_failed", 0)
       ELSE Finish(r, "ok", 0)]
  /\ UNCHANGED <<catalog, intents, audit>>
  /\ Env(fail)

\* -------------------------------------------------------- ProcessPayment
\* stripeService.CreatePaymentIntent: the amount of the request, in cents
IntentAmount(payAmount) == payAmount * 100

PaymentIntent(r) ==
  [Amount |-> IntentAmount(r.payAmount), OrderID |-> r.payOrder, Confirmed |-> FALSE]

IsPending_OrConfirmed(order) ==
  order.Status \in {OrderStatusPending, OrderStatusConfirmed}

IsPending(order) == order.Status = OrderStatusPending

PaidStatus_Processing == OrderStatusProcessing

\* the status written after a confirmed payment
PaidStatus == OrderStatusConfirmed

\* caller is the authenticated user of the HTTP request; neither the handler
\* nor the service reads it
ProcessPaymentBegin(p, orderID, payAmount, payOrder, caller, fail) ==
  /\ CanBegin(p)
  /\ (OrderGetByIDOk(orderID, fail) /\ IsPending(orders[orderID]))
        => Len(intents) + Cardinality(Paying) < caps.intents
  /\ LET r == [Idle EXCEPT !.op = "ProcessPayment", !.id = orderID,
                           !.payAmount = payAmount, !.payOrder = payOrder,
                           !.userID = caller, !.pre = Snap, !.fault = fail]
     IN req' = [req EXCEPT ![p] =
          IF ~OrderGetByIDOk(orderID, fail) THEN Finish(r, "order_get_failed", 0)
          ELSE IF ~IsPending(orders[orderID])
          THEN Finish(r, "not_pending", 0)
          ELSE [r EXCEPT !.order = orders[orderID], !.pc = "create_intent"]]
  /\ UNCHANGED <<catalog, orders, intents, audit>>
  /\ Env(fail)

\* a gateway call that keeps trying after an error
GatewayFailed_Retry(r, res) == [r EXCEPT !.gwFailed = TRUE]

\* the gateway returned an error: it is wrapped and returned at once
GatewayFailed(r, res) == Finish([r EXCEPT !.fault = TRUE, !.gwFailed = TRUE], res, 0)

ProcessPaymentCreateIntent(p, fail) ==
  LET r == [req[p] EXCEPT !.gwCalls = @ + 1] IN
  /\ req[p].op = "ProcessPayment" /\ req[p].pc = "create_intent"
  /\ intents' = IF fail THEN intents ELSE Append(intents, PaymentIntent(r))
  /\ req' = [req EXCEPT ![p] =
       IF fail THEN GatewayFailed(r, "payment_failed")
       ELSE [r EXCEPT !.intent = Len(intents) + 1, !.pc = "confirm"]]
  /\ UNCHANGED <<catalog, orders, audit>>
  /\ Env(fail)

ProcessPaymentConfirm(p, fail) ==
  LET r == [req[p] EXCEPT !.gwCalls = @ + 1] IN
  /\ req[p].op = "ProcessPayment" /\ req[p].pc = "confirm"
  /\ intents' = IF fail THEN intents ELSE [intents EXCEPT ![r.intent].Confirmed = TRUE]
  /\ req' = [req EXCEPT ![p] =
       IF fail THEN GatewayFailed(r, "confirm_failed")
       ELSE [r EXCEPT !.pc = "write"]]
  /\ UNCHANGED <<catalog, orders, audit>>
  /\ Env(fail)

ProcessPaymentWrite(p, fail) ==
  LET r == req[p] IN
  /\ r.op = "ProcessPayment" /\ r.pc = "write"
  /\ orders' = IF fail THEN orders ELSE OrderUpdateStatus(r.id, PaidStatus)
  /\ req' = [req EXCEPT ![p] =
       IF fail THEN Finish([r EXCEPT !.fault = TRUE], "update_failed", 0)
       ELSE Finish(r, "ok", r.order.TotalAmount)]
  /\ UNCHANGED <<catalog, intents, audit>>
  /\ Env(fail)

\* ------------------------------------------- productService: catalog edits
\* an optional field of a request body: <<>> when absent, <<v>> when present
UpdateProductRequest ==
  [Price : {<<>>, <<ProductPrice[1] + 2>>}, Stock : {<<>>},
   IsActive : {<<>>, <<TRUE>>, <<FALSE>>}]

\* the row UpdateProduct builds from the row it read and the fields provided
UpdatedProduct(product, upd) ==
  [product EXCEPT
     !.Price = IF upd.Price # <<>> THEN upd.Price[1] ELSE @,
     !.Stock = IF upd.Stock # <<>> THEN upd.Stock[1] ELSE @,
     !.IsActive = IF upd.IsActive # <<>> THEN upd.IsActive[1] ELSE @]

\* productRepository.Update: Save writes every column of the row it is given.
\* When the row has been deleted since it was read, the ORM either finds no
\* row to update or inserts the row again; both outcomes are allowed.
ProductSave(id, product, fail, reinsert) ==
  IF fail THEN catalog
  ELSE IF id \in DOMAIN catalog THEN [catalog EXCEPT ![id] = product]
  ELSE IF reinsert THEN [k \in DOMAIN catalog \cup {id} |->
                           IF k = id THEN product ELSE catalog[k]]
  ELSE catalog

\* productRepository.Delete: the row is no longer found by any later query
ProductDelete(id) == [k \in DOMAIN catalog \ {id} |-> catalog[k]]

UpdateProductBegin(p, id, upd, sellerID, fail) ==
  /\ CanBegin(p)
  /\ LET r == [Idle EXCEPT !.op = "UpdateProduct", !.id = id, !.userID = sellerID,
                           !.pre = Snap, !.fault = fail]
     IN req' = [req EXCEPT ![p] =
          IF ~ProductGetByIDOk(id, fail) THEN Finish(r, "product_get_failed", 0)
          ELSE IF catalog[id].SellerID # sellerID THEN Finish(r, "unauthorized", 0)
          ELSE IF upd.Price # <<>> /\ upd.Price[1] <= 0 THEN Finish(r, "invalid_price", 0)
          ELSE IF upd.Stock # <<>> /\ upd.Stock[1] < 0 THEN Finish(r, "invalid_stock", 0)
          ELSE [r EXCEPT !.product = UpdatedProduct(catalog[id], upd), !.pc = "save"]]
  /\ UNCHANGED <<catalog, orders, intents, audit>>
  /\ Env(fail)

UpdateProductSave(p, fail, reinsert) ==
  LET r == req[p] IN
  /\ r.op = "UpdateProduct" /\ r.pc = "save"
  /\ catalog' = ProductSave(r.id, r.product, fail, reinsert)
  /\ audit' = Touched(0, r.id)
  /\ req' = [req EXCEPT ![p] =
       IF fail THEN Finish([r EXCEPT !.fault = TRUE], "update_failed", 0)
       ELSE Finish(r, "ok", 0)]
  /\ UNCHANGED <<orders, intents>>
  /\ Env(fail)

DeleteProductBegin(p, id, sellerID, fail) ==
  /\ CanBegin(p)
  /\ LET r == [Idle EXCEPT !.op = "DeleteProduct", !.id = id, !.userID = sellerID,
                           !.pre = Snap, !.fault = fail]
     IN req' = [req EXCEPT ![p] =
          IF ~ProductGetByIDOk(id, fail) THEN Finish(r, "product_get_failed", 0)
          ELSE IF catalog[id].SellerID # sellerID THEN Finish(r, "unauthorized", 0)
          ELSE [r EXCEPT !.pc = "delete"]]
  /\ UNCHANGED <<catalog, orders, intents, audit>>
  /\ Env(fail)

DeleteProductDelete(p, fail) ==
  LET r == req[p] IN
  /\ r.op = "DeleteProduct" /\ r.pc = "delete"
  /\ catalog' = IF fail THEN catalog ELSE ProductDelete(r.id)
  /\ req' = [req EXCEPT ![p] =
       IF fail THEN Finish([r EXCEPT !.fault = TRUE], "delete_failed", 0)
       ELSE Finish(r, "ok", 0)]
  /\ UNCHANGED <<orders, intents, audit>>
  /\ Env(fail)

\* productService.UpdateStock: the seller sets the stock of an own product
UpdateStockBegin(p, id, stock, sellerID, fail) ==
  /\ CanBegin(p)
  /\ LET r == [Idle EXCEPT !.op = "UpdateStock", !.id = id, !.userID = sellerID,
                           !.newStock = stock, !.pre = Snap, !.fault = fail]
     IN req' = [req EXCEPT ![p] =
          IF ~ProductGetByIDOk(id, fail) THEN Finish(r, "product_get_failed", 0)
          ELSE IF catalog[id].SellerID # sellerID THEN Finish(r, "unauthorized", 0)
          ELSE IF stock < 0 THEN Finish(r, "negative_stock", 0)
          ELSE [r EXCEPT !.pc = "write"]]
  /\ UNCHANGED <<catalog, orders, intents, audit>>
  /\ Env(fail)

UpdateStockWrite(p, fail) ==
  LET r == req[p] IN
  /\ r.op = "UpdateStock" /\ r.pc = "write"
  /\ catalog' = ProductUpdateStock(r.id, r.newStock, fail)
  /\ audit' = Touched(0, r.id)
  /\ req' = [req EXCEPT ![p] =
       IF fail THEN Finish([r EXCEPT !.fault = TRUE], "update_failed", 0)
       ELSE Finish(r, "ok", 0)]
  /\ UNCHANGED <<orders, intents>>
  /\ Env(fail)

\* ----------------------------------------------------- GetOrderAnalytics
\* the columns of table order_items (migrations/004_create_order_items.sql)
OrderItemColumns ==
  {"id", "order_id", "product_id", "quantity", "unit_price", "total_price",
   "product_name", "product_sku", "product_description", "product_image",
   "created_at", "updated_at", "deleted_at"}

\* the value of a numeric column of an order_items row
ItemColumn(item, col) ==
  CASE col = "product_id" -> item.ProductID
    [] col = "quantity" -> item.Quantity
    [] col = "unit_price" -> item.UnitPrice
    [] col = "total_price" -> item.TotalPrice
    [] OTHER -> 0

\* SELECT COALESCE(SUM(order_items.price * order_items.quantity), 0)
RevenueColumns == <<"price", "quantity">>

\* the database runs the statement only if every column it names exists
RevenueQueryOk(fail) ==
  ~fail /\ \A i \in DOMAIN RevenueColumns : RevenueColumns[i] \in OrderItemColumns

RECURSIVE SumSeq(_)
SumSeq(q) == IF q = <<>> THEN 0 ELSE Head(q) + SumSeq(Tail(q))

\* the rows of order_items JOIN products JOIN orders WHERE products.seller_id
\* = sellerID AND orders.status = 'delivered', summed over the SELECT's product
\* of columns, one order after the other
RevenueBySellerID(sellerID) ==
  SumSeq([id \in DOMAIN orders |->
            IF orders[id].Status # OrderStatusDelivered THEN 0
            ELSE SumSeq([k \in DOMAIN orders[id].OrderItems |->
                   LET item == orders[id].OrderItems[k] IN
                   IF ProductSeller[item.ProductID] = sellerID
                   THEN ItemColumn(item, RevenueColumns[1]) * ItemColumn(item, RevenueColumns[2])
                   ELSE 0])])

\* SELECT COALESCE(SUM(total_amount), 0) FROM orders WHERE status = 'delivered'
TotalRevenue ==
  SumSeq([id \in DOMAIN orders |->
            IF orders[id].Status = OrderStatusDelivered THEN orders[id].TotalAmount ELSE 0])

\* the handler scopes a seller to its own id and an admin to no seller; the
\* service then asks the order store for the revenue
GetOrderAnalyticsBegin(p, userID) ==
  /\ CanBegin(p)
  /\ LET r == [Idle EXCEPT !.op = "GetOrderAnalytics", !.userID = userID, !.pre = Snap]
     IN req' = [req EXCEPT ![p] =
          IF UserRole[userID] # RoleAdmin /\ UserRole[userID] # RoleSeller
          THEN Finish(r, "forbidden", 0)
          ELSE [r EXCEPT !.pc = "revenue"]]
  /\ UNCHANGED <<catalog, orders, intents, audit>>
  /\ Env(FALSE)

GetOrderAnalyticsRevenue(p, fail) ==
  LET r == req[p] IN
  /\ r.op = "GetOrderAnalytics" /\ r.pc = "revenue"
  /\ req' = [req EXCEPT ![p] =
       IF UserRole[r.userID] = RoleSeller
       THEN IF RevenueQueryOk(fail)
            THEN [r EXCEPT !.totalAmount = RevenueBySellerID(r.userID), !.pc = "count"]
            ELSE Finish([r EXCEPT !.fault = fail], "revenue_failed", 0)
       ELSE IF fail THEN Finish([r EXCEPT !.fault = TRUE], "revenue_failed", 0)
            ELSE [r EXCEPT !.totalAmount = TotalRevenue, !.pc = "count"]]
  /\ UNCHANGED <<catalog, orders, intents, audit>>
  /\ Env(fail)

\* the count of all orders; the counts per status that follow cannot fail the
\* call and are part of this step
GetOrderAnalyticsCount(p, fail) ==
  LET r == req[p] IN
  /\ r.op = "GetOrderAnalytics" /\ r.pc = "count"
  /\ req' = [req EXCEPT ![p] =
       IF fail THEN Finish([r EXCEPT !.fault = TRUE], "count_failed", 0)
       ELSE Finish(r, "ok", r.totalAmount)]
  /\ UNCHANGED <<catalog, orders, intents, audit>>
  /\ Env(fail)

\* the handler sends the response and the slot is free again
Return(p) ==
  /\ req[p].pc = "done"
  /\ req' = [req EXCEPT ![p] = Idle]
  /\ UNCHANGED <<catalog, orders, intents, audit>>
  /\ Env(FALSE)

\* ------------------------------------------------ rate limit middleware
\* whether the auth routes run behind AuthRateLimit: the auth group is
\* registered without middleware and the server installs Logger, Recover, CORS
\* and Logging only
AuthRateLimited == FALSE

\* rate.NewLimiter(requestsPerSecond, BurstSize): a bucket that starts full
NewLimiter == BurstSize

\* limiter.Allow(): takes a token if there is one
Allow(tokens) == tokens >= 1

\* one token comes back every 60 / RequestsPerMinute seconds, up to BurstSize
Refilled(tokens) == IF tokens < BurstSize THEN tokens + 1 ELSE tokens

\* the limiter of the address, created on its first request
LimiterOf(ip) == IF ip \in DOMAIN limiters THEN limiters[ip] ELSE NewLimiter

\* POST /auth/login from the address: through the limiter when the route has
\* one, then to the handler
Login(ip) ==
  /\ answered[ip].handled + answered[ip].limited < BurstRequests
  /\ IF AuthRateLimited
     THEN /\ limiters' = [k \in DOMAIN limiters \cup {ip} |->
                            IF k # ip THEN limiters[k]
                            ELSE IF Allow(LimiterOf(ip)) THEN LimiterOf(ip) - 1
                            ELSE LimiterOf(ip)]
          /\ answered' = IF Allow(LimiterOf(ip))
                         THEN [answered EXCEPT ![ip].handled = @ + 1]
                         ELSE [answered EXCEPT ![ip].limited = @ + 1]
     ELSE /\ answered' = [answered EXCEPT ![ip].handled = @ + 1]
          /\ UNCHANGED limiters
  /\ UNCHANGED <<orderVars, clock, authVars, cartVars>>

\* one token period passes
Tick ==
  /\ clock < MaxClock
  /\ clock' = clock + 1
  /\ limiters' = [k \in DOMAIN limiters |-> Refilled(limiters[k])]
  /\ UNCHANGED <<orderVars, answered, authVars, cartVars>>

InitRate ==
  /\ limiters = [ip \in {} |-> 0]
  /\ clock = 0
  /\ answered = [ip \in ClientIPs |-> [handled |-> 0, limited |-> 0]]

\* --------------------------------------------------------- password reset
\* users with an account, and the addresses a forgot-password request names:
\* the address of user u is u, address 9 belongs to no account
AuthUsers == {1, 2}
Emails == {1, 2, 9}

\* a password, as the checks of the validator see it
Password(tag, length) ==
  [Tag |-> tag, Length |-> length, Upper |-> TRUE, Lower |-> TRUE, Number |-> TRUE,
   Special |-> TRUE, Forbidden |-> FALSE, Repeats |-> FALSE, Sequential |-> FALSE]

InitialPassword == Password("initial", 12)

\* the passwords a reset request carries: two that satisfy the policy, one of
\* ten characters, one of six
NewPasswords == {Password("a", 14), Password("b", 14), Password("c", 10), Password("d", 6)}

\* the tokens a reset request carries: 0 is the empty string, MaxTokens + 1 a
\* string that was never issued
TokenInputs == 0..(MaxTokens + 1)

\* utils.ValidatePassword: the checks of the default policy in their order
ValidatePassword(password) ==
  IF password.Length < 12 THEN "too_short"
  ELSE IF ~password.Upper THEN "no_uppercase"
  ELSE IF ~password.Lower THEN "no_lowercase"
  ELSE IF ~password.Number THEN "no_number"
  ELSE IF ~password.Special THEN "no_special"
  ELSE IF password.Forbidden THEN "forbidden_word"
  ELSE IF password.Repeats THEN "repeated_characters"
  ELSE IF password.Sequential THEN "sequential_characters"
  ELSE "none"

\* User.HashPassword: the stored value is a hash of the password
HashPassword(password) == [Hash |-> password.Tag]

\* userRepository.GetByEmail
UserByEmail(email) == IF email \in AuthUsers THEN email ELSE 0

\* userRepository.GetPasswordResetToken:
\* WHERE token = ? AND expires_at > NOW() AND used_at IS NULL
TokenFound(token) ==
  token \in DOMAIN resetTokens /\ ~resetTokens[token].Expired /\ ~resetTokens[token].Used

ResetIdle == [op |-> "none", pc |-> "idle", email |-> 0, token |-> 0,
              password |-> InitialPassword, user |-> 0, result |-> "none",
              found |-> FALSE, wrote |-> FALSE, marked |-> FALSE]

ResetCanBegin(p) ==
  /\ reset[p].pc = "idle"
  /\ \A q \in Procs : q < p => reset[q].pc # "idle"

ResetFinish(r, res) == [r EXCEPT !.pc = "done", !.result = res]

\* authService.ForgotPassword: the account is looked up by its address; an
\* unknown address is answered like a known one
ForgotPasswordBegin(p, email) ==
  /\ ResetCanBegin(p)
  /\ UserByEmail(email) # 0
       => Len(resetTokens) + Cardinality({q \in Procs : reset[q].pc = "create_token"})
            < MaxTokens
  /\ LET r == [ResetIdle EXCEPT !.op = "ForgotPassword", !.email = email,
                                !.user = UserByEmail(email)]
     IN reset' = [reset EXCEPT ![p] =
          IF UserByEmail(email) = 0 THEN ResetFinish(r, "ok")
          ELSE [r EXCEPT !.pc = "create_token"]]
  /\ UNCHANGED <<resetTokens, passwords>>
  /\ UNCHANGED <<orderVars, rateVars, cartVars>>

\* userRepository.CreatePasswordResetToken: a fresh random token, valid 24 hours
ForgotPasswordCreateToken(p) ==
  LET r == reset[p] IN
  /\ r.op = "ForgotPassword" /\ r.pc = "create_token"
  /\ resetTokens' = Append(resetTokens, [UserID |-> r.user, Expired |-> FALSE, Used |-> FALSE,
                               succeeded |-> 0])
  /\ reset' = [reset EXCEPT ![p] = ResetFinish([r EXCEPT !.token = Len(resetTokens) + 1], "ok")]
  /\ UNCHANGED passwords
  /\ UNCHANGED <<orderVars, rateVars, cartVars>>

\* the 24 hours of a token are over
Expire(token) ==
  /\ token \in DOMAIN resetTokens /\ ~resetTokens[token].Expired
  /\ resetTokens' = [resetTokens EXCEPT ![token].Expired = TRUE]
  /\ UNCHANGED <<passwords, reset>>
  /\ UNCHANGED <<orderVars, rateVars, cartVars>>

\* authHandler.ResetPassword and the first half of authService.ResetPassword:
\* the request is validated (token required, password of 8 characters or
\* more), the token is looked up, the password is checked against the policy
\* and hashed into the user row that came with the token
ResetPasswordBegin(p, token, password) ==
  /\ ResetCanBegin(p)
  /\ LET r == [ResetIdle EXCEPT !.op = "ResetPassword", !.token = token,
                                !.password = password, !.found = TokenFound(token)]
     IN reset' = [reset EXCEPT ![p] =
          IF token = 0 \/ password.Length < 8 THEN ResetFinish(r, "bad_request")
          ELSE IF ~TokenFound(token) THEN ResetFinish(r, "invalid_token")
          ELSE IF ValidatePassword(password) # "none"
          THEN ResetFinish(r, "validation_failed")
          ELSE [r EXCEPT !.user = resetTokens[token].UserID, !.pc = "update"]]
  /\ UNCHANGED <<resetTokens, passwords>>
  /\ UNCHANGED <<orderVars, rateVars, cartVars>>

\* userRepo.Update: the user row is saved with the new hash
ResetPasswordUpdate(p) ==
  LET r == reset[p] IN
  /\ r.op = "ResetPassword" /\ r.pc = "update"
  /\ passwords' = [passwords EXCEPT ![r.user] = HashPassword(r.password)]
  /\ reset' = [reset EXCEPT ![p] = [r EXCEPT !.wrote = TRUE, !.pc = "mark"]]
  /\ UNCHANGED resetTokens
  /\ UNCHANGED <<orderVars, rateVars, cartVars>>

\* userRepo.MarkPasswordResetTokenUsed: UPDATE ... SET used_at WHERE token = ?
ResetPasswordMark(p) ==
  LET r == reset[p] IN
  /\ r.op = "ResetPassword" /\ r.pc = "mark"
  /\ resetTokens' = [resetTokens EXCEPT ![r.token].Used = TRUE,
                                        ![r.token].succeeded = @ + 1]
  /\ reset' = [reset EXCEPT ![p] = ResetFinish([r EXCEPT !.marked = TRUE], "ok")]
  /\ UNCHANGED passwords
  /\ UNCHANGED <<orderVars, rateVars, cartVars>>

ResetReturn(p) ==
  /\ reset[p].pc = "done"
  /\ reset' = [reset EXCEPT ![p] = ResetIdle]
  /\ UNCHANGED <<resetTokens, passwords>>
  /\ UNCHANGED <<orderVars, rateVars, cartVars>>

InitAuth ==
  /\ resetTokens = <<>>
  /\ passwords = [u \in AuthUsers |-> HashPassword(InitialPassword)]
  /\ reset = [p \in Procs |-> ResetIdle]

\* ------------------------------------------------------------------ cart
\* the users with a cart, and what an add-to-cart request may carry
CartUsers == {1, 2}
CartAddRequest == [ProductID : ProductIDs, Quantity : 1..MaxQty]

NoCartRequest == [op |-> "none", userID |-> 0, productID |-> 0, result |-> "none",
                  carts |-> <<>>, cartItems |-> <<>>]

\* the rows of cart_items a query sees
LiveItems(items) == {i \in DOMAIN items : ~items[i].Deleted}

\* SELECT ... FROM carts WHERE customer_id = ?: the cart's id, 0 when none
CartOf(cs, userID) ==
  IF \E c \in DOMAIN cs : cs[c].CustomerID = userID
  THEN CHOOSE c \in DOMAIN cs : cs[c].CustomerID = userID
  ELSE 0

\* cartRepository.GetOrCreateCart: the carts table afterwards, and the cart
CartsAfterGet(userID) ==
  IF CartOf(carts, userID) # 0 THEN carts ELSE Append(carts, [CustomerID |-> userID])

GetOrCreateCart(userID) == CartOf(CartsAfterGet(userID), userID)

\* cartRepository.GetItemByProduct: the id of the first row, 0 when none
GetItemByProduct(cartID, productID) ==
  LET found == {i \in LiveItems(cartItems) :
                  cartItems[i].CartID = cartID /\ cartItems[i].ProductID = productID}
  IN IF found = {} THEN 0 ELSE CHOOSE i \in found : \A j \in found : i <= j

\* DELETE FROM cart_items WHERE <where>
DeleteItems(where) ==
  [i \in DOMAIN cartItems |->
     IF ~cartItems[i].Deleted /\ where[i]
     THEN [cartItems[i] EXCEPT !.Deleted = TRUE] ELSE cartItems[i]]

\* cartRepository.RemoveItem(cartID, itemID): WHERE cart_id = ? AND id = ?
RemoveItem(cartID, itemID) ==
  DeleteItems([i \in DOMAIN cartItems |-> cartItems[i].CartID = cartID /\ i = itemID])

\* cartRepository.ClearCart(userID):
\* WHERE cart_id IN (SELECT id FROM carts WHERE customer_id = ?)
RepoClearCart(cs, userID) ==
  DeleteItems([i \in DOMAIN cartItems |->
                 \E c \in DOMAIN cs : cs[c].CustomerID = userID /\ cartItems[i].CartID = c])

CartRequest(op, userID, productID, result) ==
  [op |-> op, userID |-> userID, productID |-> productID, result |-> result,
   carts |-> carts, cartItems |-> cartItems]

\* cartService.AddToCart
AddToCart(userID, request) ==
  LET cart == GetOrCreateCart(userID)
      existing == GetItemByProduct(cart, request.ProductID)
      res == IF ~ProductGetByIDOk(request.ProductID, FALSE) THEN "product_not_found"
             ELSE IF catalog[request.ProductID].Stock < request.Quantity
             THEN "insufficient_stock"
             ELSE "ok"
  IN
  /\ Len(CartsAfterGet(userID)) <= Cardinality(CartUsers)
  /\ (res = "ok" /\ existing = 0) => Len(cartItems) < MaxCartItems
  /\ (res = "ok" /\ existing # 0) => cartItems[existing].Quantity + request.Quantity <= MaxQty
  /\ carts' = CartsAfterGet(userID)
  /\ cartItems' =
       IF res # "ok" THEN cartItems
       ELSE IF existing # 0
       THEN [cartItems EXCEPT ![existing].Quantity = @ + request.Quantity]
       ELSE Append(cartItems, [CartID |-> cart, ProductID |-> request.ProductID,
                               Quantity |-> request.Quantity, Deleted |-> FALSE])
  /\ cartLast' = CartRequest("AddToCart", userID, request.ProductID, res)
  /\ UNCHANGED <<orderVars, rateVars, authVars>>

\* cartService.ClearCart: the store's ClearCart is given the id of the cart
ClearCart(userID) ==
  LET cart == GetOrCreateCart(userID) IN
  /\ carts' = CartsAfterGet(userID)
  /\ cartItems' = RepoClearCart(CartsAfterGet(userID), cart)
  /\ cartLast' = CartRequest("ClearCart", userID, 0, "ok")
  /\ UNCHANGED <<orderVars, rateVars, authVars>>

\* cartService.RemoveFromCart: the store's RemoveItem is given the product id
RemoveFromCart(userID, productID) ==
  LET cart == GetOrCreateCart(userID) IN
  /\ carts' = CartsAfterGet(userID)
  /\ cartItems' = RemoveItem(cart, productID)
  /\ cartLast' = CartRequest("RemoveFromCart", userID, productID, "ok")
  /\ UNCHANGED <<orderVars, rateVars, authVars>>

InitCart ==
  /\ carts = <<>>
  /\ cartItems = <<>>
  /\ cartLast = NoCartRequest

\* ------------------------------------------------------------------ init
\* the tables take MaxOrders orders and MaxIntents intents; a race of two
\* requests that each add a row needs one row more
TableCaps == [orders |-> MaxOrders, intents |-> MaxIntents]
RaceCaps == [orders |-> MaxOrders + 1, intents |-> MaxIntents + 1]

Product(id, active, stock) ==
  [IsActive |-> active, Stock |-> stock, Price |-> ProductPrice[id],
   SellerID |-> ProductSeller[id]]

InitStore ==
  /\ \E s1 \in 0..MaxStock, a2 \in BOOLEAN :
       catalog = [id \in CatalogIDs |->
                    IF id = 1 THEN Product(1, TRUE, s1) ELSE Product(2, a2, 1)]
  /\ orders = <<>>
  /\ intents = <<>>
  /\ audit = <<>>
  /\ req = [p \in Procs |-> Idle]
  /\ InitRate
  /\ InitAuth
  /\ InitCart
  /\ caps = TableCaps

\* requests run one at a time and no store or gateway call fails
Init == InitStore /\ maxInFlight = 1 /\ faultsLeft = 0

\* requests run one at a time; up to MaxFaults store or gateway calls fail
InitFaults == InitStore /\ maxInFlight = 1 /\ faultsLeft = MaxFaults

\* two requests run at once over one product with one unit left
InitConc ==
  /\ catalog = [id \in CatalogIDs |-> Product(id, id = 1, 1)]
  /\ orders = <<>>
  /\ intents = <<>>
  /\ audit = <<>>
  /\ req = [p \in Procs |-> Idle]
  /\ InitRate
  /\ InitAuth
  /\ InitCart
  /\ caps = TableCaps
  /\ maxInFlight = 2
  /\ faultsLeft = 0

\* the catalog of the end-to-end scenario: product 1, priced 10, has 5 in stock
InitScenario ==
  /\ catalog = [id \in CatalogIDs |-> Product(id, TRUE, IF id = 1 THEN 5 ELSE 1)]
  /\ orders = <<>>
  /\ intents = <<>>
  /\ audit = <<>>
  /\ req = [p \in Procs |-> Idle]
  /\ InitRate
  /\ InitAuth
  /\ InitCart
  /\ caps = TableCaps
  /\ maxInFlight = 1
  /\ faultsLeft = 0

\* two requests run at once over one product with one unit left, and each
\* may add its row
InitRace ==
  /\ catalog = [id \in CatalogIDs |-> Product(id, id = 1, 1)]
  /\ orders = <<>>
  /\ intents = <<>>
  /\ audit = <<>>
  /\ req = [p \in Procs |-> Idle]
  /\ InitRate
  /\ InitAuth
  /\ InitCart
  /\ caps = RaceCaps
  /\ maxInFlight = 2
  /\ faultsLeft = 0

\* two requests run at once over a stocked catalog that its sellers edit
InitCatalog ==
  /\ catalog = [id \in CatalogIDs |-> Product(id, TRUE, 1)]
  /\ orders = <<>>
  /\ intents = <<>>
  /\ audit = <<>>
  /\ req = [p \in Procs |-> Idle]
  /\ InitRate
  /\ InitAuth
  /\ InitCart
  /\ caps = TableCaps
  /\ maxInFlight = 2
  /\ faultsLeft = 0

Next ==
  \/ \E p \in Procs, items \in CreateInputs, u \in OrderingUsers :
       CreateOrderBegin(p, items, u)
  \/ \E p \in Procs, fail \in Fails : CreateOrderValidate(p, fail)
  \/ \E p \in Procs, fail \in Fails : CreateOrderPersist(p, fail)
  \/ \E p \in Procs, fail \in Fails : CreateOrderStockRead(p, fail)
  \/ \E p \in Procs, fail \in Fails : CreateOrderStockWrite(p, fail)
  \/ \E p \in Procs, id \in OrderIDs, status \in StatusInputs, u \in StatusActors,
         fail \in Fails :
       UpdateOrderStatusBegin(p, id, status, u, fail)
  \/ \E p \in Procs, fail \in Fails : UpdateOrderStatusAuthorize(p, fail)
  \/ \E p \in Procs, fail \in Fails : UpdateOrderStatusWrite(p, fail)
  \/ \E p \in Procs, id \in OrderIDs, u \in CancelActors, fail \in Fails :
       CancelOrderBegin(p, id, u, fail)
  \/ \E p \in Procs, fail \in Fails : CancelOrderRestoreRead(p, fail)
  \/ \E p \in Procs, fail \in Fails : CancelOrderRestoreWrite(p, fail)
  \/ \E p \in Procs, fail \in Fails : CancelOrderWrite(p, fail)
  \/ \E p \in Procs, id \in OrderIDs, a \in PayAmounts, o \in OrderIDs,
         u \in PayCallers, fail \in Fails :
       ProcessPaymentBegin(p, id, a, o, u, fail)
  \/ \E p \in Procs, fail \in Fails : ProcessPaymentCreateIntent(p, fail)
  \/ \E p \in Procs, fail \in Fails : ProcessPaymentConfirm(p, fail)
  \/ \E p \in Procs, fail \in Fails : ProcessPaymentWrite(p, fail)
  \/ \E p \in Procs : Return(p)

\* the orders and the sellers of a catalog that changes under CreateOrder
CatalogOrders == {<<[ProductID |-> 1, Quantity |-> 1]>>,
                  <<[ProductID |-> 2, Quantity |-> 1], [ProductID |-> 1, Quantity |-> 1]>>}
CatalogSellers == {3, 4}
CatalogEdited == {1}

\* the order a payment of the race names: the first one
RaceOrderIDs == {1}

\* checkout and catalog edits side by side
NextCatalog ==
  \/ \E p \in Procs, items \in CatalogOrders, u \in OrderingUsers :
       CreateOrderBegin(p, items, u)
  \/ \E p \in Procs, fail \in Fails : CreateOrderValidate(p, fail)
  \/ \E p \in Procs, fail \in Fails : CreateOrderPersist(p, fail)
  \/ \E p \in Procs, fail \in Fails : CreateOrderStockRead(p, fail)
  \/ \E p \in Procs, fail \in Fails : CreateOrderStockWrite(p, fail)
  \/ \E p \in Procs, id \in CatalogEdited, upd \in UpdateProductRequest,
         u \in CatalogSellers, fail \in Fails :
       UpdateProductBegin(p, id, upd, u, fail)
  \/ \E p \in Procs, fail \in Fails, reinsert \in BOOLEAN :
       UpdateProductSave(p, fail, reinsert)
  \/ \E p \in Procs, id \in CatalogEdited, u \in CatalogSellers, fail \in Fails :
       DeleteProductBegin(p, id, u, fail)
  \/ \E p \in Procs, fail \in Fails : DeleteProductDelete(p, fail)
  \/ \E p \in Procs : Return(p)

\* users who ask for analytics: both sellers, the admin, a customer
AnalyticsUsers == {1, 3, 4, 5}

\* the order workflow with the analytics endpoint
NextAnalytics ==
  \/ Next
  \/ \E p \in Procs, u \in AnalyticsUsers : GetOrderAnalyticsBegin(p, u)
  \/ \E p \in Procs, fail \in Fails : GetOrderAnalyticsRevenue(p, fail)
  \/ \E p \in Procs, fail \in Fails : GetOrderAnalyticsCount(p, fail)

\* the stock values a seller sends: below zero, zero, a full shelf
StockInputs == {0 - 1, 0, MaxStock}

\* the order workflow with the sellers' stock edits
NextStock ==
  \/ Next
  \/ \E p \in Procs, id \in CatalogEdited, stock \in StockInputs, u \in CatalogSellers,
         fail \in Fails :
       UpdateStockBegin(p, id, stock, u, fail)
  \/ \E p \in Procs, fail \in Fails : UpdateStockWrite(p, fail)

\* two checkouts, two payments and a cancellation side by side
NextRace ==
  \/ \E p \in Procs, items \in CreateInputs, u \in OrderingUsers :
       CreateOrderBegin(p, items, u)
  \/ \E p \in Procs, fail \in Fails : CreateOrderValidate(p, fail)
  \/ \E p \in Procs, fail \in Fails : CreateOrderPersist(p, fail)
  \/ \E p \in Procs, fail \in Fails : CreateOrderStockRead(p, fail)
  \/ \E p \in Procs, fail \in Fails : CreateOrderStockWrite(p, fail)
  \/ \E p \in Procs, id \in RaceOrderIDs, a \in PayAmounts, u \in PayCallers,
         fail \in Fails :
       ProcessPaymentBegin(p, id, a, id, u, fail)
  \/ \E p \in Procs, fail \in Fails : ProcessPaymentCreateIntent(p, fail)
  \/ \E p \in Procs, fail \in Fails : ProcessPaymentConfirm(p, fail)
  \/ \E p \in Procs, fail \in Fails : ProcessPaymentWrite(p, fail)
  \/ \E p \in Procs, id \in RaceOrderIDs, u \in CancelActors, fail \in Fails :
       CancelOrderBegin(p, id, u, fail)
  \/ \E p \in Procs, fail \in Fails : CancelOrderRestoreRead(p, fail)
  \/ \E p \in Procs, fail \in Fails : CancelOrderRestoreWrite(p, fail)
  \/ \E p \in Procs, fail \in Fails : CancelOrderWrite(p, fail)
  \/ \E p \in Procs : Return(p)

\* accounts asking for reset tokens and using them, two requests at a time
NextAuth ==
  \/ \E p \in Procs, email \in Emails : ForgotPasswordBegin(p, email)
  \/ \E p \in Procs : ForgotPasswordCreateToken(p)
  \/ \E token \in 1..MaxTokens : Expire(token)
  \/ \E p \in Procs, token \in TokenInputs, password \in NewPasswords :
       ResetPasswordBegin(p, token, password)
  \/ \E p \in Procs : ResetPasswordUpdate(p)
  \/ \E p \in Procs : ResetPasswordMark(p)
  \/ \E p \in Procs : ResetReturn(p)

\* customers filling and emptying their carts
NextCart ==
  \/ \E u \in CartUsers, request \in CartAddRequest : AddToCart(u, request)
  \/ \E u \in CartUsers : ClearCart(u)
  \/ \E u \in CartUsers, productID \in ProductIDs : RemoveFromCart(u, productID)

\* clients logging in while time passes
NextRate ==
  \/ \E ip \in ClientIPs : Login(ip)
  \/ Tick

Spec == Init /\ [][Next]_vars
SpecFaults == InitFaults /\ [][Next]_vars
SpecConc == InitConc /\ [][Next]_vars
SpecScenario == InitScenario /\ [][Next]_vars
SpecCatalog == InitCatalog /\ [][NextCatalog]_vars
SpecAnalytics == Init /\ [][NextAnalytics]_vars
SpecRate == Init /\ [][NextRate]_vars
SpecRace == InitRace /\ [][NextRace]_vars
SpecStock == Init /\ [][NextStock]_vars
SpecAuth == InitConc /\ [][NextAuth]_vars
SpecCart == InitCatalog /\ [][NextCart]_vars

\* ================================================================ claims
Done(p, op) == req[p].pc = "done" /\ req[p].op = op

\* how a request line fares against a catalog: the checks of the validation
\* loop in their order
LineError(cat, item) ==
  IF item.ProductID \notin DOMAIN cat THEN "product_get_failed"
  ELSE IF ~cat[item.ProductID].IsActive THEN "not_available"
  ELSE IF item.Quantity > cat[item.ProductID].Stock THEN "insufficient_stock"
  ELSE "none"

OverStock(cat, item) ==
  item.ProductID \in DOMAIN cat /\ item.Quantity > cat[item.ProductID].Stock

FirstFailing(cat, items) ==
  CHOOSE k \in DOMAIN items :
    /\ LineError(cat, items[k]) # "none"
    /\ \A j \in 1..(k - 1) : LineError(cat, items[j]) = "none"

StoreUnchanged(r) == orders = r.pre.orders /\ catalog = r.pre.catalog

\* C1 as stated: a CreateOrder with a line asking for more than the product's
\* stock fails with the insufficient-stock error, persists no order and changes
\* no stock.
C1_AlwaysInsufficientStock ==
  \A p \in Procs :
    (Done(p, "CreateOrder") /\ \E k \in DOMAIN req[p].items :
                                 OverStock(req[p].pre.catalog, req[p].items[k]))
      => req[p].result = "insufficient_stock" /\ StoreUnchanged(req[p])

\* C1 amended: such a CreateOrder always fails, persists no order and changes
\* no stock; its error is that of the first line that fails validation
\* (product missing, product inactive, insufficient stock, in this order), so
\* it is the insufficient-stock error when the over-stock line is the first
\* failing line and its product is active.
C1_StockCheck ==
  \A p \in Procs :
    (Done(p, "CreateOrder") /\ \E k \in DOMAIN req[p].items :
                                 OverStock(req[p].pre.catalog, req[p].items[k]))
      => /\ req[p].result = LineError(req[p].pre.catalog,
                                      req[p].items[FirstFailing(req[p].pre.catalog, req[p].items)])
         /\ req[p].result \in {"insufficient_stock", "not_available", "product_get_failed"}
         /\ StoreUnchanged(req[p])

\* the second line of a request asks for more than is left and is refused
C1_Witness ==
  \E p \in Procs :
    /\ Done(p, "CreateOrder") /\ req[p].result = "insufficient_stock"
    /\ Len(req[p].items) = 2
    /\ ~OverStock(req[p].pre.catalog, req[p].items[1])
    /\ OverStock(req[p].pre.catalog, req[p].items[2])
    /\ req[p].pre.catalog[req[p].items[2].ProductID].Stock > 0

\* the pairs of the transition table
TransitionTable ==
  {<<OrderStatusPending, OrderStatusConfirmed>>, <<OrderStatusPending, OrderStatusCancelled>>,
   <<OrderStatusConfirmed, OrderStatusProcessing>>, <<OrderStatusConfirmed, OrderStatusCancelled>>,
   <<OrderStatusProcessing, OrderStatusShipped>>, <<OrderStatusProcessing, OrderStatusCancelled>>,
   <<OrderStatusShipped, OrderStatusDelivered>>}

\* C2: an admin's UpdateOrderStatus on an existing order succeeds exactly for
\* the seven pairs of the table, and then the persisted status is the requested
\* one; for every other pair of the seven statuses (self-transitions and pairs
\* with refunded included) it fails with the invalid-transition error and the
\* persisted status is unchanged.
C2_TransitionTable ==
  /\ \A from \in OrderStatus, to \in OrderStatus :
       isValidStatusTransition(from, to) <=> <<from, to>> \in TransitionTable
  /\ \A p \in Procs :
       LET r == req[p] IN
       (Done(p, "UpdateOrderStatus") /\ UserRole[r.userID] = RoleAdmin
          /\ r.id \in DOMAIN r.pre.orders)
         => IF <<r.pre.orders[r.id].Status, r.status>> \in TransitionTable
            THEN r.result = "ok" /\ orders[r.id].Status = r.status
            ELSE r.result = "invalid_transition"
                 /\ orders[r.id].Status = r.pre.orders[r.id].Status

\* an admin has moved a shipped order to delivered
C2_Witness ==
  \E p \in Procs :
    /\ Done(p, "UpdateOrderStatus") /\ req[p].result = "ok"
    /\ UserRole[req[p].userID] = RoleAdmin
    /\ req[p].pre.orders[req[p].id].Status = OrderStatusShipped
    /\ orders[req[p].id].Status = OrderStatusDelivered

Terminal == {OrderStatusDelivered, OrderStatusCancelled}

\* C3: delivered and cancelled are terminal: once an order's persisted status
\* is delivered or cancelled, no step of any UpdateOrderStatus, CancelOrder or
\* ProcessPayment request, in any interleaving, changes it.
C3_TerminalStatus ==
  [][\A id \in DOMAIN orders :
       orders[id].Status \in Terminal => orders'[id].Status = orders[id].Status]_vars

\* C4: an order is created and then cancelled by its owner or an admin while
\* pending or confirmed, no other request has written the stock of its
\* products in between and no store call has failed: every product of the
\* order has its stock of before the creation again, and the order is
\* cancelled.
C4_StockRestored ==
  \A p \in Procs :
    LET r == req[p] IN
    (Done(p, "CancelOrder") /\ r.result = "ok" /\ ~r.fault /\ audit[r.id].clean)
      => /\ \A id \in DOMAIN catalog :
              HasProduct(orders[r.id], id) => catalog[id].Stock = audit[r.id].preStock[id]
         /\ orders[r.id].Status = OrderStatusCancelled

\* a confirmed order of two units has been cancelled
C4_Witness ==
  \E p \in Procs :
    LET r == req[p] IN
    /\ Done(p, "CancelOrder") /\ r.result = "ok" /\ audit[r.id].clean
    /\ r.pre.orders[r.id].Status = OrderStatusConfirmed
    /\ r.pre.orders[r.id].OrderItems[1].Quantity = 2
    /\ catalog # r.pre.catalog

\* the caller CancelOrder lets through: an admin or the order's customer
MayCancel(order, userID) == UserRole[userID] = RoleAdmin \/ order.CustomerID = userID

\* C5: CancelOrder by an authorized caller on an order that is neither pending
\* nor confirmed fails with the not-cancellable error and leaves the order's
\* status and every product's stock unchanged.
C5_NotCancellable ==
  /\ \A st \in OrderStatus \ {OrderStatusPending, OrderStatusConfirmed} :
       ~CanCancel([NoOrder EXCEPT !.Status = st])
  /\ \A p \in Procs :
       LET r == req[p] IN
       (Done(p, "CancelOrder") /\ r.id \in DOMAIN r.pre.orders
          /\ MayCancel(r.pre.orders[r.id], r.userID)
          /\ r.pre.orders[r.id].Status \notin {OrderStatusPending, OrderStatusConfirmed})
         => r.result = "not_cancellable" /\ StoreUnchanged(r)

\* the owner has tried to cancel a shipped order
C5_Witness ==
  \E p \in Procs :
    LET r == req[p] IN
    /\ Done(p, "CancelOrder") /\ r.result = "not_cancellable"
    /\ r.pre.orders[r.id].CustomerID = r.userID
    /\ r.pre.orders[r.id].Status = OrderStatusShipped

\* C6: a CreateOrder that does not return an order to its caller leaves no
\* order of that call in the order store, and a persisted order carries all of
\* its items.
C6_NoOrderWithoutReturn ==
  /\ \A p \in Procs :
       (Done(p, "CreateOrder") /\ req[p].result # "ok") => orders = req[p].pre.orders
  /\ \A id \in DOMAIN orders : Len(orders[id].OrderItems) >= 1

RECURSIVE SumOver(_, _, _)
\* the sum of f[k] over the indices k of s that satisfy keep[k]
SumOver(s, f, keep) ==
  IF s = {} THEN 0
  ELSE LET k == CHOOSE x \in s : TRUE
       IN (IF keep[k] THEN f[k] ELSE 0) + SumOver(s \ {k}, f, keep)

ItemsTotal(items) ==
  SumOver(DOMAIN items, [k \in DOMAIN items |-> items[k].TotalPrice],
          [k \in DOMAIN items |-> TRUE])

\* C7: after a successful CreateOrder each item's total price is the catalog
\* unit price read during validation times its quantity, and the order's
\* subtotal and total both equal the sum of the items' total prices, for any
\* list of lines.
C7_Totals ==
  \A p \in Procs :
    LET r == req[p] IN
    (Done(p, "CreateOrder") /\ r.result = "ok")
      => LET o == orders[r.ret] IN
         /\ Len(o.OrderItems) = Len(r.items)
         /\ \A k \in DOMAIN r.items :
              /\ o.OrderItems[k].ProductID = r.items[k].ProductID
              /\ o.OrderItems[k].Quantity = r.items[k].Quantity
              /\ o.OrderItems[k].UnitPrice = r.pre.catalog[r.items[k].ProductID].Price
              /\ o.OrderItems[k].TotalPrice = o.OrderItems[k].UnitPrice * r.items[k].Quantity
         /\ o.SubtotalAmount = ItemsTotal(o.OrderItems)
         /\ o.TotalAmount = ItemsTotal(o.OrderItems)

\* an order of two products with different prices, one of them twice
C7_Witness ==
  \E p \in Procs :
    LET r == req[p] IN
    /\ Done(p, "CreateOrder") /\ r.result = "ok"
    /\ Len(r.items) = 2
    /\ r.items[1].ProductID # r.items[2].ProductID
    /\ r.items[1].Quantity = 2
    /\ orders[r.ret].TotalAmount = 23

RequestedQty(items, id) ==
  SumOver(DOMAIN items, [k \in DOMAIN items |-> items[k].Quantity],
          [k \in DOMAIN items |-> items[k].ProductID = id])

\* C8: after a successful CreateOrder, with no concurrent request and no store
\* failure, every product's stock is its stock before the call minus the
\* quantity requested for it over all lines, and the new order is pending.
C8_StockDecrement ==
  \A p \in Procs :
    LET r == req[p] IN
    (Done(p, "CreateOrder") /\ r.result = "ok" /\ ~r.fault)
      => /\ \A id \in DOMAIN catalog :
              catalog[id].Stock = r.pre.catalog[id].Stock - RequestedQty(r.items, id)
         /\ orders[r.ret].Status = OrderStatusPending

\* two lines of the same product, and a product the request does not name
C8_Witness ==
  \E p \in Procs :
    LET r == req[p] IN
    /\ Done(p, "CreateOrder") /\ r.result = "ok"
    /\ Len(r.items) = 2
    /\ r.items[1].ProductID = 1 /\ r.items[2].ProductID = 1
    /\ catalog[1].Stock = r.pre.catalog[1].Stock - 2
    /\ catalog[2].Stock = r.pre.catalog[2].Stock

\* C9: ProcessPayment on an order that is not pending fails with the
\* order-not-pending error, calls no gateway operation and leaves the order's
\* status unchanged.
C9_NotPending ==
  \A p \in Procs :
    LET r == req[p] IN
    (Done(p, "ProcessPayment") /\ r.id \in DOMAIN r.pre.orders
       /\ r.pre.orders[r.id].Status # OrderStatusPending)
      => /\ r.result = "not_pending"
         /\ r.gwCalls = 0 /\ intents = r.pre.intents
         /\ orders = r.pre.orders

\* payment was asked for an order that is already confirmed
C9_Witness ==
  \E p \in Procs :
    LET r == req[p] IN
    /\ Done(p, "ProcessPayment") /\ r.result = "not_pending"
    /\ r.pre.orders[r.id].Status = OrderStatusConfirmed

\* C10: ProcessPayment on a pending order, the gateway creating and confirming
\* the intent, sets the persisted status to confirmed whoever the caller is,
\* and changes no product's stock.
C10_PaymentConfirms ==
  \A p \in Procs :
    LET r == req[p] IN
    (Done(p, "ProcessPayment") /\ r.id \in DOMAIN r.pre.orders
       /\ r.pre.orders[r.id].Status = OrderStatusPending /\ ~r.fault)
      => /\ r.result = "ok"
         /\ orders[r.id].Status = OrderStatusConfirmed
         /\ r.gwCalls = 2
         /\ catalog = r.pre.catalog

\* a customer who does not own the order has paid it
C10_Witness ==
  \E p \in Procs :
    LET r == req[p] IN
    /\ Done(p, "ProcessPayment") /\ r.result = "ok"
    /\ r.pre.orders[r.id].CustomerID # r.userID
    /\ UserRole[r.userID] = RoleCustomer
    /\ orders[r.id].Status = OrderStatusConfirmed

\* C11: when CreatePaymentIntent or ConfirmPayment returns an error,
\* ProcessPayment returns an error, the order stays pending and untouched, and
\* each gateway operation has been called at most once in that call: one call
\* and no intent when the creation failed, two calls and one intent when the
\* confirmation failed.
C11_GatewayFailure ==
  \A p \in Procs :
    LET r == req[p] IN
    (Done(p, "ProcessPayment") /\ r.gwFailed)
      => /\ r.result \in {"payment_failed", "confirm_failed"}
         /\ orders = r.pre.orders
         /\ orders[r.id].Status = OrderStatusPending
         /\ r.result = "payment_failed" => r.gwCalls = 1 /\ intents = r.pre.intents
         /\ r.result = "confirm_failed"
              => /\ r.gwCalls = 2
                 /\ Len(intents) = Len(r.pre.intents) + 1
                 /\ ~intents[Len(intents)].Confirmed

\* the gateway created the intent and then refused to confirm it
C11_Witness ==
  \E p \in Procs :
    /\ Done(p, "ProcessPayment") /\ req[p].result = "confirm_failed"
    /\ req[p].gwFailed /\ req[p].gwCalls = 2

\* C12: every payment intent a ProcessPayment call creates at the gateway is
\* for the persisted total of the order named by orderID (in cents, as the
\* gateway counts), whatever amount and order id the payment request carries.
C12_IntentAmount ==
  \A p \in Procs :
    LET r == req[p] IN
    (Done(p, "ProcessPayment") /\ Len(intents) > Len(r.pre.intents))
      => intents[Len(intents)].Amount = 100 * r.pre.orders[r.id].TotalAmount

\* the seller owns the product of at least one item of the order
OwnsItem(order, userID) ==
  \E k \in DOMAIN order.OrderItems : ProductSeller[order.OrderItems[k].ProductID] = userID

\* the actors the claim lets change a status: an admin, or a seller with an item
MayUpdateStatus(order, userID) ==
  \/ UserRole[userID] = RoleAdmin
  \/ UserRole[userID] = RoleSeller /\ OwnsItem(order, userID)

\* C13: UpdateOrderStatus on an existing order changes the status only for an
\* admin or a seller who owns the product of one of its items; for every other
\* seller and for every customer, the order's owner included, it fails with the
\* unauthorized error whether or not the requested transition is in the table,
\* and the store is unchanged.
C13_StatusAuthorization ==
  \A p \in Procs :
    LET r == req[p] IN
    (Done(p, "UpdateOrderStatus") /\ r.id \in DOMAIN r.pre.orders)
      => /\ ~MayUpdateStatus(r.pre.orders[r.id], r.userID)
              => r.result = "unauthorized" /\ StoreUnchanged(r)
         /\ orders[r.id].Status # r.pre.orders[r.id].Status
              => MayUpdateStatus(r.pre.orders[r.id], r.userID)
         /\ r.result = "ok" => MayUpdateStatus(r.pre.orders[r.id], r.userID)

\* a seller with no product in the order asked for a transition that is not
\* in the table and was refused as unauthorized
C13_Witness ==
  \E p \in Procs :
    LET r == req[p] IN
    /\ Done(p, "UpdateOrderStatus") /\ r.result = "unauthorized"
    /\ UserRole[r.userID] = RoleSeller
    /\ ~OwnsItem(r.pre.orders[r.id], r.userID)
    /\ ~isValidStatusTransition(r.pre.orders[r.id].Status, r.status)

\* C14: CancelOrder on an existing order succeeds only for the order's customer
\* or an admin; for any other customer and for any seller, one who owns a
\* product of the order included, it fails with the unauthorized error and
\* leaves the order's status and every product's stock unchanged.
C14_CancelAuthorization ==
  \A p \in Procs :
    LET r == req[p] IN
    (Done(p, "CancelOrder") /\ r.id \in DOMAIN r.pre.orders)
      => /\ r.result = "ok"
              => \/ UserRole[r.userID] = RoleAdmin
                 \/ r.pre.orders[r.id].CustomerID = r.userID
         /\ (UserRole[r.userID] # RoleAdmin /\ r.pre.orders[r.id].CustomerID # r.userID)
              => r.result = "unauthorized" /\ StoreUnchanged(r)

\* a seller who owns a product of a pending order was refused
C14_Witness ==
  \E p \in Procs :
    LET r == req[p] IN
    /\ Done(p, "CancelOrder") /\ r.result = "unauthorized"
    /\ UserRole[r.userID] = RoleSeller
    /\ OwnsItem(r.pre.orders[r.id], r.userID)
    /\ r.pre.orders[r.id].Status = OrderStatusPending

\* the order of the scenario: one unit of product 1
ScenarioOrder(order) ==
  /\ Len(order.OrderItems) = 1
  /\ order.OrderItems[1].ProductID = 1
  /\ order.OrderItems[1].Quantity = 1

\* the first two steps of the scenario: the order is created with total 10,
\* stock 4 and status pending, and ProcessPayment then confirms it
ScenarioCreateAndPay ==
  \A p \in Procs :
    LET r == req[p] IN
    /\ (Done(p, "CreateOrder") /\ r.items = <<[ProductID |-> 1, Quantity |-> 1]>>
          /\ r.pre.catalog[1].Stock = 5)
         => /\ r.result = "ok"
            /\ orders[r.ret].TotalAmount = 10
            /\ catalog[1].Stock = 4
            /\ orders[r.ret].Status = OrderStatusPending
    /\ (Done(p, "ProcessPayment") /\ r.id \in DOMAIN r.pre.orders
          /\ ScenarioOrder(r.pre.orders[r.id])
          /\ r.pre.orders[r.id].Status = OrderStatusPending)
         => r.result = "ok" /\ orders[r.id].Status = OrderStatusConfirmed

\* the last step of the scenario has run: an authorized actor has asked to move
\* the paid order from confirmed to cancelled
ScenarioCancelDone(p) ==
  LET r == req[p] IN
  /\ Done(p, "UpdateOrderStatus") /\ r.status = OrderStatusCancelled
  /\ r.id \in DOMAIN r.pre.orders
  /\ MayUpdateStatus(r.pre.orders[r.id], r.userID)
  /\ ScenarioOrder(r.pre.orders[r.id])
  /\ r.pre.orders[r.id].Status = OrderStatusConfirmed
  /\ Len(intents) = 1 /\ intents[1].Confirmed
  /\ audit[r.id].preStock[1] = 5 /\ r.pre.catalog[1].Stock = 4

C18_ActiveWhenPersisted ==
  [][Len(orders') > Len(orders)
       => \A k \in DOMAIN orders'[Len(orders')].OrderItems :
            LET id == orders'[Len(orders')].OrderItems[k].ProductID IN
            id \in DOMAIN catalog /\ catalog[id].IsActive]_vars

\* the revenue the claim gives a seller: unit price times quantity over the
\* items of delivered orders whose product is the seller's
OwnRevenue(sellerID) ==
  SumSeq([id \in DOMAIN orders |->
            IF orders[id].Status # OrderStatusDelivered THEN 0
            ELSE SumOver(DOMAIN orders[id].OrderItems,
                         [k \in DOMAIN orders[id].OrderItems |->
                            orders[id].OrderItems[k].UnitPrice * orders[id].OrderItems[k].Quantity],
                         [k \in DOMAIN orders[id].OrderItems |->
                            ProductSeller[orders[id].OrderItems[k].ProductID] = sellerID])])

\* C19: GetOrderAnalytics for a seller returns the sum of unit price times
\* quantity over the items of delivered orders whose product belongs to that
\* seller, so an order with items of two sellers gives each seller its own
\* lines only.
C19_SellerRevenue ==
  \A p \in Procs :
    LET r == req[p] IN
    (Done(p, "GetOrderAnalytics") /\ UserRole[r.userID] = RoleSeller)
      => r.result = "ok" /\ r.ret = OwnRevenue(r.userID)

\* C20: login is limited to 30 requests per minute per client address: within
\* one minute no address has more than 30 login requests handled, the requests
\* beyond the 30th are answered 429, no request is answered 429 before 30 were
\* admitted, and an address that stays within 30 is never answered 429 whatever
\* the other address sends.
C20_AuthRateLimit ==
  \A ip \in ClientIPs :
    LET sent == answered[ip].handled + answered[ip].limited IN
    /\ answered[ip].handled <= RequestsPerMinute
    /\ answered[ip].limited > 0 => answered[ip].handled >= RequestsPerMinute
    /\ sent > RequestsPerMinute => answered[ip].limited = sent - RequestsPerMinute
    /\ sent <= RequestsPerMinute => answered[ip].limited = 0

\* the units of the product in the items of the orders written so far
RECURSIVE Sold(_, _)
Sold(os, id) ==
  IF os = <<>> THEN 0
  ELSE RequestedQty(Head(os).OrderItems, id) + Sold(Tail(os), id)

\* C21: CreateOrder calls on one product are not serialized.  Every line a
\* CreateOrder accepts passes the stock check against the stock in the store at
\* that step, and the order is written later from the lines accepted, without
\* another check; so two calls for the last unit can both pass and both write
\* their order, and more is sold than there was (the witness).
C21_Unserialized ==
  [][/\ \A p \in Procs :
          (req[p].op = "CreateOrder"
             /\ Len(req'[p].orderItems) = Len(req[p].orderItems) + 1)
            => LET oi == req'[p].orderItems[Len(req'[p].orderItems)] IN
               catalog[oi.ProductID].IsActive /\ catalog[oi.ProductID].Stock >= oi.Quantity
     /\ Len(orders') > Len(orders)
          => \E p \in Procs :
               /\ req[p].pc = "persist"
               /\ Len(req[p].orderItems) = Len(req[p].items)
               /\ orders'[Len(orders')].OrderItems = req[p].orderItems]_vars

\* two orders of one unit each were written for a product that had one unit
C21_Witness ==
  /\ Len(orders) = 2
  /\ \A id \in DOMAIN orders :
       /\ Len(orders[id].OrderItems) = 1
       /\ orders[id].OrderItems[1].ProductID = 1
       /\ orders[id].OrderItems[1].Quantity = 1
       /\ audit[id].preStock[1] = 1
  /\ \A p \in Procs : Done(p, "CreateOrder") /\ req[p].result = "ok"
  /\ Sold(orders, 1) > 1

\* C22: once CreateOrder has written its order, a failure of a store call of
\* the stock loop (the product read or the stock update of any line) does not
\* fail the call and does not remove the order: the call returns the order it
\* wrote, and the order is in the store as written.
C22_DecrementBestEffort ==
  \A p \in Procs :
    LET r == req[p] IN
    (Done(p, "CreateOrder") /\ Len(orders) > Len(r.pre.orders))
      => /\ r.result = "ok"
         /\ r.ret = Len(orders)
         /\ orders[r.ret] = audit[r.ret].created

\* the quantity the items other than the k-th give back to the product
RestoredBut(items, k, id) ==
  SumOver(DOMAIN items, [j \in DOMAIN items |-> items[j].Quantity],
          [j \in DOMAIN items |-> j # k /\ items[j].ProductID = id])

\* C23: in a CancelOrder that passed its checks, the failure of the product
\* read or of the stock write of one item is not fatal: the other items' stock
\* is restored (each product has its stock of before the call plus the
\* quantities of the other items), the order is cancelled and the call
\* succeeds.
C23_RestoreBestEffort ==
  \A p \in Procs :
    LET r == req[p] IN
    (Done(p, "CancelOrder") /\ r.fault
       /\ r.result \notin {"order_get_failed", "cancel_failed"})
      => /\ r.result = "ok"
         /\ orders[r.id].Status = OrderStatusCancelled
         /\ \E k \in DOMAIN orders[r.id].OrderItems :
              \A id \in DOMAIN catalog :
                catalog[id].Stock
                  = r.pre.catalog[id].Stock + RestoredBut(orders[r.id].OrderItems, k, id)

\* the first item of a two-product order could not be restored, the second was
C23_Witness ==
  \E p \in Procs :
    LET r == req[p]
        items == orders[r.id].OrderItems
    IN
    /\ Done(p, "CancelOrder") /\ r.result = "ok" /\ r.fault
    /\ Len(items) = 2 /\ items[1].ProductID # items[2].ProductID
    /\ catalog[items[1].ProductID].Stock = r.pre.catalog[items[1].ProductID].Stock
    /\ catalog[items[2].ProductID].Stock
         = r.pre.catalog[items[2].ProductID].Stock + items[2].Quantity
    /\ orders[r.id].Status = OrderStatusCancelled

\* C24: stock is never negative: with requests run one at a time and no store
\* failure, after any sequence of CreateOrder, CancelOrder, UpdateOrderStatus,
\* ProcessPayment and seller UpdateStock calls every product's stock is >= 0,
\* also for a request with several lines of one product.
C24_StockNonNegative ==
  \A id \in DOMAIN catalog : catalog[id].Stock >= 0

\* no request is between two of its store calls
Quiescent == \A p \in Procs : req[p].pc \in {"idle", "done"}

\* the units of the product held by the orders that are not cancelled
RECURSIVE Held(_, _)
Held(os, id) ==
  IF os = <<>> THEN 0
  ELSE (IF Head(os).Status # OrderStatusCancelled
        THEN RequestedQty(Head(os).OrderItems, id) ELSE 0) + Held(Tail(os), id)

\* C25: stock is conserved: with requests run one at a time, no store failure
\* and no direct stock edit, whenever no request is under way every product's
\* stock plus its quantities in the orders that are not cancelled is its
\* initial stock, whether CancelOrder or UpdateOrderStatus cancelled an order.
C25_StockConserved ==
  (Quiescent /\ Len(orders) >= 1)
    => \A id \in DOMAIN catalog :
         catalog[id].Stock + Held(orders, id) = audit[1].preStock[id]

\* C26: an order's stock is restored at most once: in every interleaving of
\* concurrent CancelOrder calls on an order, what its cancellations have added
\* to a product's stock is at most the quantity of the product in the order.
\* The calls considered start after the order's creation has taken its stock.
C26_RestoredOnce ==
  \A id \in DOMAIN orders, productID \in CatalogIDs :
    LET quantity == RequestedQty(orders[id].OrderItems, productID) IN
    (\A p \in Procs :
       /\ req[p].op = "CancelOrder" /\ req[p].id = id
       /\ req[p].pre.catalog[productID].Stock = audit[id].preStock[productID] - quantity)
      => audit[id].restored[productID] <= quantity

\* the intents of the order that the gateway has confirmed
ConfirmedFor(id) ==
  {k \in DOMAIN intents : intents[k].OrderID = id /\ intents[k].Confirmed}

\* C27: an order is charged at most once: in every interleaving of concurrent
\* ProcessPayment calls on an order the gateway confirms at most one intent for
\* it, and no intent is confirmed while the order's persisted status is
\* cancelled.
C27_ChargedOnce ==
  /\ [](\A id \in DOMAIN orders : Cardinality(ConfirmedFor(id)) <= 1)
  /\ [][\A k \in DOMAIN intents :
          (intents'[k].Confirmed /\ ~intents[k].Confirmed)
            => \A p \in Procs :
                 (req[p].pc = "confirm" /\ req[p].intent = k)
                   => orders[req[p].id].Status # OrderStatusCancelled]_vars

\* C28: a password-reset token is single-use: in every interleaving at most
\* one ResetPassword call with a given token succeeds; a well-formed call whose
\* token is unknown, expired or used fails with the invalid-or-expired-token
\* error and writes no password; a call rejected by the password policy writes
\* no password and does not mark the token used.
C28_SingleUse ==
  /\ \A token \in DOMAIN resetTokens : resetTokens[token].succeeded <= 1
  /\ \A p \in Procs :
       LET r == reset[p] IN
       /\ (r.pc = "done" /\ r.op = "ResetPassword" /\ r.result # "bad_request" /\ ~r.found)
            => r.result = "invalid_token" /\ ~r.wrote /\ ~r.marked
       /\ (r.pc = "done" /\ r.op = "ResetPassword" /\ r.result # "bad_request" /\ r.found
              /\ ValidatePassword(r.password) # "none")
            => r.result = "validation_failed" /\ ~r.wrote /\ ~r.marked

\* the lines of the user's cart: product and quantity of each row a query sees
UserItems(cs, items, userID) ==
  {[ProductID |-> items[i].ProductID, Quantity |-> items[i].Quantity] :
     i \in {j \in LiveItems(items) : cs[items[j].CartID].CustomerID = userID}}

\* C29: ClearCart(u) removes every item of u's cart and nothing else: after
\* it the cart of u is empty and every other user's cart has the items it had,
\* whatever ids the carts have.
C29_ClearCart ==
  cartLast.op = "ClearCart"
    => /\ UserItems(carts, cartItems, cartLast.userID) = {}
       /\ \A v \in CartUsers \ {cartLast.userID} :
            UserItems(carts, cartItems, v) = UserItems(cartLast.carts, cartLast.cartItems, v)

\* C30: RemoveFromCart(u, product) removes the line of the product from u's
\* cart and leaves the other lines: after it the cart has no item of the
\* product, and every item of another product is there with its quantity.
C30_RemoveFromCart ==
  cartLast.op = "RemoveFromCart"
    => UserItems(carts, cartItems, cartLast.userID)
         = {line \in UserItems(cartLast.carts, cartLast.cartItems, cartLast.userID) :
              line.ProductID # cartLast.productID}

====
